---- MODULE Spec2Model ----
(***************************************************************************)
(* The department and lecture schema groups of models/departments.py and   *)
(* models/lectures.py: pydantic v2 models (Base, Create, Update, Read)     *)
(* whose behaviour is the validation of an input mapping into an object,   *)
(* the JSON serialisation of an object and its parsing back.               *)
(*                                                                         *)
(* A Python value is a record [t, v]: t is its type and v its content as a *)
(* sequence of integers (a string is the sequence of its code points).     *)
(***************************************************************************)
EXTENDS Integers, Sequences, FiniteSets, TLC

VARIABLES pc, call, result, json, back, store

vars == <<pc, call, result, json, back, store>>

(***************************************************************************)
(* Bounds of the checked inputs.                                           *)
(***************************************************************************)
\* longest code string of the exhaustive sweep over code strings
MaxCodeLen == 7
\* number of merged updates after which the lifecycle stops taking more
MaxUpdates == 2

(***************************************************************************)
(* Python values                                                           *)
(***************************************************************************)
Absent == [t |-> "absent", v |-> <<>>]
None == [t |-> "none", v |-> <<>>]
Str(s) == [t |-> "str", v |-> s]
IntVal(n) == [t |-> "int", v |-> <<n>>]
DateVal(d) == [t |-> "date", v |-> d]
DatetimeVal(d) == [t |-> "datetime", v |-> d]
UUIDVal(u) == [t |-> "uuid", v |-> u]

\* outcome of validating one field
Valid(val) == [ok |-> TRUE, val |-> val]
Invalid == [ok |-> FALSE, val |-> Absent]

(***************************************************************************)
(* UNIType: StringConstraints(pattern=r"^[a-z]{2,3}\d{1,4}$").  pydantic   *)
(* hands the pattern to its default regex engine, where \d is every        *)
(* Unicode decimal digit (general category Nd) and $ is the end of the     *)
(* text only.                                                              *)
(***************************************************************************)
\* [a-z]
IsLowerAZ(c) == c \in 97..122

\* \d: the Nd blocks the checked alphabet can draw from (ASCII, Arabic-Indic,
\* Extended Arabic-Indic, Devanagari, Fullwidth)
PatternDigit(c) ==
    \/ c \in 48..57
    \/ c \in 1632..1641
    \/ c \in 1776..1785
    \/ c \in 2406..2415
    \/ c \in 65296..65305

\* ^[a-z]{2}\d{1,4}$
UNIPatternTwoLetters(s) ==
    \E d \in 1..4 :
        /\ Len(s) = 2 + d
        /\ \A k \in 1..2 : IsLowerAZ(s[k])
        /\ \A k \in 3..Len(s) : PatternDigit(s[k])

\* ^[a-z]{2,3}\d{1,4}$
UNIPattern(s) ==
    \E l \in 2..3 : \E d \in 1..4 :
        /\ Len(s) = l + d
        /\ \A k \in 1..l : IsLowerAZ(s[k])
        /\ \A k \in (l + 1)..Len(s) : PatternDigit(s[k])

UNIType(v) ==
    IF v.t = "str" /\ UNIPattern(v.v) THEN Valid(v) ELSE Invalid

\* Optional[str]: a string or None
StrTypeOrNone(v) ==
    IF v.t \in {"str", "none"} THEN Valid(v) ELSE Invalid

\* a plain str field: any string, the empty one included
StrType(v) ==
    IF v.t = "str" THEN Valid(v) ELSE Invalid

(***************************************************************************)
(* date: a date object, or a string YYYY-MM-DD naming a calendar day       *)
(***************************************************************************)
AsciiDigits(s) == \A i \in 1..Len(s) : s[i] \in 48..57

RECURSIVE Num(_)
Num(s) ==
    IF s = <<>> THEN 0
    ELSE 10 * Num(SubSeq(s, 1, Len(s) - 1)) + (s[Len(s)] - 48)

RECURSIVE Pow10(_)
Pow10(n) == IF n = 0 THEN 1 ELSE 10 * Pow10(n - 1)

\* n written in w decimal digits, zero padded
Pad(n, w) == [i \in 1..w |-> 48 + ((n \div Pow10(w - i)) % 10)]

IsLeap(y) == (y % 4 = 0 /\ y % 100 # 0) \/ y % 400 = 0

DaysInMonth(y, m) ==
    IF m = 2 THEN (IF IsLeap(y) THEN 29 ELSE 28)
    ELSE IF m \in {4, 6, 9, 11} THEN 30 ELSE 31

IsCalendarDay(y, m, d) ==
    /\ y \in 1..9999
    /\ m \in 1..12
    /\ d \in 1..DaysInMonth(y, m)

ParseDate(s) ==
    IF /\ Len(s) = 10
       /\ s[5] = 45 /\ s[8] = 45
       /\ AsciiDigits(SubSeq(s, 1, 4))
       /\ AsciiDigits(SubSeq(s, 6, 7))
       /\ AsciiDigits(SubSeq(s, 9, 10))
       /\ IsCalendarDay(Num(SubSeq(s, 1, 4)), Num(SubSeq(s, 6, 7)),
                        Num(SubSeq(s, 9, 10)))
    THEN Valid(DateVal(<<Num(SubSeq(s, 1, 4)), Num(SubSeq(s, 6, 7)),
                         Num(SubSeq(s, 9, 10))>>))
    ELSE Invalid

FormatDate(d) == Pad(d[1], 4) \o <<45>> \o Pad(d[2], 2) \o <<45>> \o Pad(d[3], 2)

DateType(v) ==
    IF v.t = "date" THEN Valid(v)
    ELSE IF v.t = "str" THEN ParseDate(v.v)
    ELSE Invalid

(***************************************************************************)
(* datetime: <<year, month, day, hour, minute, second, microsecond, tz>>,  *)
(* tz 0 for a naive datetime (datetime.utcnow's) and 1 for UTC.  The       *)
(* checked inputs hold no other offset.                                    *)
(***************************************************************************)
\* isoformat(timespec="seconds")
FormatDatetimeNoMicroseconds(d) ==
    FormatDate(<<d[1], d[2], d[3]>>) \o <<84>>
        \o Pad(d[4], 2) \o <<58>> \o Pad(d[5], 2) \o <<58>> \o Pad(d[6], 2)
        \o (IF d[8] = 1 THEN <<90>> ELSE <<>>)

\* isoformat(), Z for UTC
FormatDatetime(d) ==
    FormatDate(<<d[1], d[2], d[3]>>) \o <<84>>
        \o Pad(d[4], 2) \o <<58>> \o Pad(d[5], 2) \o <<58>> \o Pad(d[6], 2)
        \o (IF d[7] # 0 THEN <<46>> \o Pad(d[7], 6) ELSE <<>>)
        \o (IF d[8] = 1 THEN <<90>> ELSE <<>>)

ParseDatetime(s) ==
    LET n == Len(s)
        hasZ == n >= 20 /\ s[n] \in {90, 122}
        body == IF hasZ THEN SubSeq(s, 1, n - 1) ELSE s
        m == Len(body)
        frac == IF m > 20 THEN SubSeq(body, 21, m) ELSE <<>>
        day == ParseDate(SubSeq(body, 1, 10))
    IN  IF /\ m >= 19
           /\ day.ok
           /\ body[11] \in {84, 116, 32, 95}
           /\ AsciiDigits(SubSeq(body, 12, 13)) /\ body[14] = 58
           /\ AsciiDigits(SubSeq(body, 15, 16)) /\ body[17] = 58
           /\ AsciiDigits(SubSeq(body, 18, 19))
           /\ Num(SubSeq(body, 12, 13)) < 24
           /\ Num(SubSeq(body, 15, 16)) < 60
           /\ Num(SubSeq(body, 18, 19)) < 60
           /\ \/ m = 19
              \/ /\ m >= 21
                 /\ body[20] = 46
                 /\ Len(frac) \in 1..6
                 /\ AsciiDigits(frac)
        THEN Valid(DatetimeVal(day.val.v \o
                 <<Num(SubSeq(body, 12, 13)), Num(SubSeq(body, 15, 16)),
                   Num(SubSeq(body, 18, 19)),
                   Num(frac) * Pow10(6 - Len(frac)),
                   IF hasZ THEN 1 ELSE 0>>))
        ELSE Invalid

DatetimeType(v) ==
    IF v.t = "datetime" THEN Valid(v)
    ELSE IF v.t = "str" THEN ParseDatetime(v.v)
    ELSE Invalid

(***************************************************************************)
(* UUID: its 32 hexadecimal digits, each 0..15                             *)
(***************************************************************************)
HexChar(n) == IF n < 10 THEN 48 + n ELSE 87 + n

IsHexChar(c) == c \in 48..57 \/ c \in 97..102 \/ c \in 65..70

HexVal(c) ==
    IF c \in 48..57 THEN c - 48
    ELSE IF c \in 97..102 THEN c - 87
    ELSE c - 55

HyphenAt == {9, 14, 19, 24}

FormatUUID(u) ==
    [i \in 1..36 |->
        IF i \in HyphenAt THEN 45
        ELSE HexChar(u[i - Cardinality({h \in HyphenAt : h < i})])]

ParseUUID(s) ==
    LET hyphenated == Len(s) = 36 /\ \A i \in HyphenAt : s[i] = 45
        digits == IF hyphenated THEN SelectSeq(s, LAMBDA c : c # 45) ELSE s
    IN  IF Len(digits) = 32 /\ \A i \in 1..32 : IsHexChar(digits[i])
        THEN Valid(UUIDVal([i \in 1..32 |-> HexVal(digits[i])]))
        ELSE Invalid

UUIDType(v) ==
    IF v.t = "uuid" THEN Valid(v)
    ELSE IF v.t = "str" THEN ParseUUID(v.v)
    ELSE Invalid

(***************************************************************************)
(* The fields of each model, in declaration order.  A required field is    *)
(* Field(...), an optional one is Optional[T] = Field(None), and the Read  *)
(* model's three fields take a default_factory.                            *)
(***************************************************************************)
Groups == {"Department", "Lecture"}
Variants == {"Base", "Create", "Update", "Read"}

OwnerField(g) == IF g = "Department" THEN "staff" ELSE "professor"
DateField(g) == IF g = "Department" THEN "founding_date" ELSE "start_date"

FieldSpec(name, type, nullable, default) ==
    [name |-> name, type |-> type, nullable |-> nullable, default |-> default]

BaseFields(g) ==
    << FieldSpec("code", "UNIType", FALSE, "required"),
       FieldSpec(OwnerField(g), "str", FALSE, "required"),
       FieldSpec(DateField(g), "date", TRUE, "none") >>

\* an Update whose code is Optional[UNIType] = Field(...)
UpdateFieldsCodeRequired(g) ==
    << FieldSpec("code", "UNIType", TRUE, "required"),
       FieldSpec(OwnerField(g), "str", TRUE, "none"),
       FieldSpec(DateField(g), "date", TRUE, "none") >>

UpdateFields(g) ==
    << FieldSpec("code", "UNIType", TRUE, "none"),
       FieldSpec(OwnerField(g), "str", TRUE, "none"),
       FieldSpec(DateField(g), "date", TRUE, "none") >>

ReadFields(g) ==
    BaseFields(g) \o
    << FieldSpec("id", "UUID", FALSE, "factory"),
       FieldSpec("created_at", "datetime", FALSE, "factory"),
       FieldSpec("updated_at", "datetime", FALSE, "factory") >>

ModelFields(g, variant) ==
    IF variant = "Update" THEN UpdateFields(g)
    ELSE IF variant = "Read" THEN ReadFields(g)
    ELSE BaseFields(g)

FieldNames(fields) == {fields[i].name : i \in 1..Len(fields)}

\* every key an input mapping may hold for a group
Keys(g) == FieldNames(ReadFields(g))

TypeValidate(type, v) ==
    IF type = "UNIType" THEN UNIType(v)
    ELSE IF type = "str" THEN StrType(v)
    ELSE IF type = "date" THEN DateType(v)
    ELSE IF type = "UUID" THEN UUIDType(v)
    ELSE DatetimeType(v)

\* a field whose default_factory is called whatever the input holds
ValidateFieldFactoryAlways(fs, v, fresh) ==
    IF fs.default = "factory" THEN Valid(fresh)
    ELSE IF v = Absent
    THEN (IF fs.default = "none" THEN Valid(None) ELSE Invalid)
    ELSE IF fs.nullable /\ v = None THEN Valid(None)
    ELSE TypeValidate(fs.type, v)

\* fresh is what the field's default_factory returns at this construction
ValidateField(fs, v, fresh) ==
    IF v = Absent
    THEN (IF fs.default = "none" THEN Valid(None)
          ELSE IF fs.default = "factory" THEN Valid(fresh)
          ELSE Invalid)
    ELSE IF fs.nullable /\ v = None THEN Valid(None)
    ELSE TypeValidate(fs.type, v)

NoObject == [f \in {} |-> Absent]

\* data.get(name): a key the input does not hold is absent
Get(data, name) == IF name \in DOMAIN data THEN data[name] ELSE Absent

\* validation that stops at the first failing field
RECURSIVE ValidateFieldsFailFast(_, _, _, _, _)
ValidateFieldsFailFast(fields, data, fresh, i, acc) ==
    IF i > Len(fields) \/ acc.errors # {} THEN acc
    ELSE LET fs == fields[i]
             r == ValidateField(fs, Get(data, fs.name),
                      IF fs.name \in DOMAIN fresh THEN fresh[fs.name] ELSE None)
         IN  ValidateFieldsFailFast(fields, data, fresh, i + 1,
                 IF r.ok
                 THEN [acc EXCEPT !.obj = [@ EXCEPT ![fs.name] = r.val]]
                 ELSE [acc EXCEPT !.errors = @ \cup {fs.name}])

\* validation of every field in turn, the errors collected
RECURSIVE ValidateFields(_, _, _, _, _)
ValidateFields(fields, data, fresh, i, acc) ==
    IF i > Len(fields) THEN acc
    ELSE LET fs == fields[i]
             r == ValidateField(fs, Get(data, fs.name),
                      IF fs.name \in DOMAIN fresh THEN fresh[fs.name] ELSE None)
         IN  ValidateFields(fields, data, fresh, i + 1,
                 IF r.ok
                 THEN [acc EXCEPT !.obj = [@ EXCEPT ![fs.name] = r.val]]
                 ELSE [acc EXCEPT !.errors = @ \cup {fs.name}])

\* BaseModel.__init__(**data): every field is validated, the errors of all
\* of them are collected, and an object exists only when there is none
ModelValidate(g, variant, data, fresh) ==
    LET fields == ModelFields(g, variant)
        acc == ValidateFields(fields, data, fresh, 1,
                   [obj |-> [f \in FieldNames(fields) |-> Absent], errors |-> {}])
    IN  IF acc.errors = {}
        THEN [ok |-> TRUE, obj |-> acc.obj, errors |-> {}]
        ELSE [ok |-> FALSE, obj |-> NoObject, errors |-> acc.errors]

(***************************************************************************)
(* model_dump_json and model_validate_json.  The JSON document is kept as  *)
(* its members: key -> the JSON token, null or a string with its content   *)
(* escaped as it stands between the quotes.                                *)
(***************************************************************************)
RECURSIVE JsonEscape(_)
JsonEscape(s) ==
    IF s = <<>> THEN <<>>
    ELSE (IF Head(s) = 34 THEN <<92, 34>>
          ELSE IF Head(s) = 92 THEN <<92, 92>>
          ELSE IF Head(s) = 10 THEN <<92, 110>>
          ELSE <<Head(s)>>) \o JsonEscape(Tail(s))

RECURSIVE JsonUnescape(_)
JsonUnescape(s) ==
    IF s = <<>> THEN <<>>
    ELSE IF Head(s) = 92 /\ Len(s) >= 2
    THEN <<IF s[2] = 110 THEN 10 ELSE s[2]>> \o JsonUnescape(SubSeq(s, 3, Len(s)))
    ELSE <<Head(s)>> \o JsonUnescape(Tail(s))

JsonNull == [t |-> "null", v |-> <<>>]
JsonString(s) == [t |-> "string", v |-> JsonEscape(s)]

ToJson(v) ==
    IF v.t = "none" THEN JsonNull
    ELSE IF v.t = "date" THEN JsonString(FormatDate(v.v))
    ELSE IF v.t = "datetime" THEN JsonString(FormatDatetime(v.v))
    ELSE IF v.t = "uuid" THEN JsonString(FormatUUID(v.v))
    ELSE IF v.t = "int" THEN [t |-> "number", v |-> v.v]
    ELSE JsonString(v.v)

FromJson(j) ==
    IF j.t = "null" THEN None
    ELSE IF j.t = "number" THEN [t |-> "int", v |-> j.v]
    ELSE Str(JsonUnescape(j.v))

model_dump_json(obj) == [f \in DOMAIN obj |-> ToJson(obj[f])]

model_validate_json(g, variant, doc, fresh) ==
    ModelValidate(g, variant, [f \in DOMAIN doc |-> FromJson(doc[f])], fresh)

(***************************************************************************)
(* The values the checked inputs are drawn from                            *)
(***************************************************************************)
Ada == <<65, 100, 97>>
\* a name with a quote, a backslash and a line feed
Quoted == <<79, 34, 92, 10>>
Lovelace == <<76, 111, 118, 101, 108, 97, 99, 101>>
Date1815 == <<1815, 12, 10>>
LeapDay == <<2024, 2, 29>>
\* "1815-12-10" and "2023-02-29"
Date1815Text == <<49, 56, 49, 53, 45, 49, 50, 45, 49, 48>>
NoSuchDayText == <<50, 48, 50, 51, 45, 48, 50, 45, 50, 57>>

\* a, A, 1 and ARABIC-INDIC DIGIT THREE
Alphabet == {97, 65, 49, 1635}
\* the strings of length k over a set of characters
Strings(chars, k) == [1..k -> chars]

\* uuid4 results: version digit 4, variant digit 8
Uuid(n) == [i \in 1..32 |-> IF i = 13 THEN 4 ELSE IF i = 17 THEN 8 ELSE n]
ServerUUIDs == {UUIDVal(Uuid(9)), UUIDVal(Uuid(1))}
ClientUUID == UUIDVal(Uuid(10))
\* datetime.utcnow results: naive
ServerClock ==
    {DatetimeVal(<<2025, 1, 15, 10, 20, 30, 0, 0>>),
     DatetimeVal(<<2025, 1, 16, 12, 0, 0, 123456, 0>>)}
ClientDatetime == DatetimeVal(<<2020, 2, 29, 23, 59, 59, 5, 1>>)

\* what the three default factories return at one construction
Factories ==
    {[id |-> u, created_at |-> c, updated_at |-> w] :
        u \in ServerUUIDs, c \in ServerClock, w \in ServerClock}
OneFactory == CHOOSE f \in Factories : TRUE
FactoriesOf(variant) == IF variant = "Read" THEN Factories ELSE {OneFactory}

Data(g, code, owner, day, id, created, updated) ==
    [k \in Keys(g) |->
        IF k = "code" THEN code
        ELSE IF k = OwnerField(g) THEN owner
        ELSE IF k = DateField(g) THEN day
        ELSE IF k = "id" THEN id
        ELSE IF k = "created_at" THEN created
        ELSE updated]

Call(g, variant, data) == [group |-> g, variant |-> variant, data |-> data]

\* a Create call with the other fields valid
CodeCall(g, s, d) ==
    Call(g, "Create", Data(g, Str(s), Str(Ada), d, Absent, Absent, Absent))

CodeValues == {Absent, None, IntVal(123), Str(<<97, 98, 49>>), Str(<<65, 66, 49>>)}
OwnerValues == {Absent, None, IntVal(42), Str(<<>>), Str(Ada), Str(Quoted)}
DateValues ==
    {Absent, None, DateVal(Date1815), DateVal(LeapDay), Str(Date1815Text),
     Str(NoSuchDayText), Str(Lovelace)}
IdValues == {Absent, None, ClientUUID, Str(FormatUUID(Uuid(11))), Str(Ada)}
CreatedValues == {Absent, ClientDatetime, Str(Lovelace)}
UpdatedValues == {Absent, ClientDatetime}

\* every combination of the field values, for every model
FieldSweep ==
    {Call(g, variant, Data(g, c, o, d, Absent, Absent, Absent)) :
        g \in Groups, variant \in {"Base", "Create", "Update"},
        c \in CodeValues, o \in OwnerValues, d \in DateValues}
    \cup
    {Call(g, "Read", Data(g, c, o, d, i, ca, ua)) :
        g \in Groups, c \in CodeValues, o \in OwnerValues, d \in DateValues,
        i \in IdValues, ca \in CreatedValues, ua \in UpdatedValues}

(***************************************************************************)
(* Construction of one model from one input, its serialisation and the     *)
(* parsing of the serialised text.                                         *)
(***************************************************************************)
NoResult == [ok |-> FALSE, obj |-> NoObject, errors |-> {}]
NoDoc == [f \in {} |-> JsonNull]
NoRecord == [exists |-> FALSE, rec |-> NoObject, updates |-> 0]

InitCall(c) ==
    /\ pc = "call"
    /\ call = c
    /\ result = NoResult
    /\ json = NoDoc
    /\ back = NoResult
    /\ store = NoRecord

\* The calls checked: every code string over the alphabet with no date, the
\* strings of lowercase letters and ASCII digits with a trailing line feed,
\* the same strings with a date as well, and every combination of the field
\* values for every model.
Init ==
    \/ \E g \in Groups : \E k \in 0..MaxCodeLen : \E s \in Strings(Alphabet, k) :
           InitCall(CodeCall(g, s, Absent))
    \/ \E g \in Groups : \E k \in 0..(MaxCodeLen - 1) :
       \E s \in Strings({97, 49}, k) :
           InitCall(CodeCall(g, Append(s, 10), Absent))
    \/ \E g \in Groups : \E k \in 0..MaxCodeLen : \E s \in Strings({97, 49}, k) :
       \E d \in {None, DateVal(Date1815), Str(Date1815Text)} :
           InitCall(CodeCall(g, s, d))
    \/ \E c \in FieldSweep : InitCall(c)

\* Model(**data)
Construct ==
    /\ pc = "call"
    /\ \E fresh \in FactoriesOf(call.variant) :
           result' = ModelValidate(call.group, call.variant, call.data, fresh)
    /\ pc' = "done"
    /\ UNCHANGED <<call, json, back, store>>

\* obj.model_dump_json()
ModelDumpJson ==
    /\ pc = "done"
    /\ result.ok
    /\ json' = model_dump_json(result.obj)
    /\ pc' = "dumped"
    /\ UNCHANGED <<call, result, back, store>>

\* Model.model_validate_json(text)
ModelValidateJson ==
    /\ pc = "dumped"
    /\ \E fresh \in FactoriesOf(call.variant) :
           back' = model_validate_json(call.group, call.variant, json, fresh)
    /\ pc' = "parsed"
    /\ UNCHANGED <<call, result, json, store>>

Next == Construct \/ ModelDumpJson \/ ModelValidateJson

Spec == Init /\ [][Next]_vars

(***************************************************************************)
(* Assignment to a field of an existing object.  No model sets             *)
(* validate_assignment, so BaseModel.__setattr__ stores the value as given.*)
(***************************************************************************)
AssignValues == {None, Str(<<65, 66, 49, 50, 51>>), Str(<<97, 98, 49>>)}

SetAttr ==
    /\ pc = "done"
    /\ result.ok
    /\ \E f \in {"code", OwnerField(call.group)} : \E v \in AssignValues :
           result' = [result EXCEPT !.obj = [@ EXCEPT ![f] = v]]
    /\ UNCHANGED <<pc, call, json, back, store>>

NextAssign == Construct \/ SetAttr

SpecAssign == Init /\ [][NextAssign]_vars

(***************************************************************************)
(* The life of one persisted record: a Create payload is validated and     *)
(* persisted with a generated id and timestamps, Update payloads are       *)
(* validated and merged into it (the fields the payload supplies replace   *)
(* the record's, updated_at is refreshed), and a Read object is built from *)
(* the record.                                                             *)
(***************************************************************************)
LifeCodes == {Absent, None, Str(<<97, 98, 49>>), Str(<<65, 66, 49>>)}
LifeOwners == {Absent, None, Str(Ada)}
LifeDates == {Absent, None, DateVal(Date1815)}
Payloads(g) ==
    {Data(g, c, o, d, Absent, Absent, Absent) :
        c \in LifeCodes, o \in LifeOwners, d \in LifeDates}

InitLife ==
    /\ pc = "idle"
    /\ call \in {Call(g, "Create", Data(g, Absent, Absent, Absent, Absent, Absent,
                                        Absent)) : g \in Groups}
    /\ result = NoResult
    /\ json = NoDoc
    /\ back = NoResult
    /\ store = NoRecord

Persist(g, obj, fresh) ==
    [k \in Keys(g) |-> IF k \in DOMAIN obj THEN obj[k] ELSE fresh[k]]

Merge(rec, payload, obj, now) ==
    [k \in DOMAIN rec |->
        IF k = "updated_at" THEN now
        ELSE IF k \in DOMAIN obj /\ Get(payload, k) # Absent THEN obj[k]
        ELSE rec[k]]

CreateRecord ==
    /\ pc = "idle"
    /\ \E payload \in Payloads(call.group) : \E fresh \in Factories :
         LET r == ModelValidate(call.group, "Create", payload, fresh)
         IN  /\ call' = Call(call.group, "Create", payload)
             /\ result' = r
             /\ IF r.ok
                THEN /\ store' = [exists |-> TRUE,
                                  rec |-> Persist(call.group, r.obj, fresh),
                                  updates |-> 0]
                     /\ pc' = "stored"
                ELSE UNCHANGED <<store, pc>>
    /\ UNCHANGED <<json, back>>

UpdateRecord ==
    /\ pc \in {"stored", "read"}
    /\ store.exists
    /\ store.updates < MaxUpdates
    /\ \E payload \in Payloads(call.group) : \E now \in ServerClock :
         LET r == ModelValidate(call.group, "Update", payload, OneFactory)
         IN  /\ call' = Call(call.group, "Update", payload)
             /\ result' = r
             /\ IF r.ok
                THEN store' = [store EXCEPT
                                  !.rec = Merge(@, payload, r.obj, now),
                                  !.updates = @ + 1]
                ELSE UNCHANGED store
    /\ pc' = "stored"
    /\ UNCHANGED <<json, back>>

ReadRecord ==
    /\ pc \in {"stored", "read"}
    /\ store.exists
    /\ \E fresh \in Factories :
           result' = ModelValidate(call.group, "Read", store.rec, fresh)
    /\ call' = Call(call.group, "Read", store.rec)
    /\ pc' = "read"
    /\ UNCHANGED <<json, back, store>>

NextLife == CreateRecord \/ UpdateRecord \/ ReadRecord

SpecLife == InitLife /\ [][NextLife]_vars

(***************************************************************************)
(* Properties                                                              *)
(***************************************************************************)
\* the pattern as the documentation states it: ^[a-z]{2,3}[0-9]{1,4}$ over
\* the whole string, ASCII letters and ASCII digits only
AsciiUNI(s) ==
    \E l \in 2..3 : \E d \in 1..4 :
        /\ Len(s) = l + d
        /\ \A k \in 1..l : s[k] \in 97..122
        /\ \A k \in (l + 1)..Len(s) : s[k] \in 48..57

Owner == OwnerField(call.group)
Day == DateField(call.group)
BaseNames == {"code", Owner, Day}
Constructed(variant) == pc = "done" /\ call.variant = variant

\* C1: a Create whose code is a string that does not match
\* ^[a-z]{2,3}[0-9]{1,4}$ fails with ValidationError.
C1_NonMatchingCodeRejected ==
    (/\ Constructed("Create")
     /\ call.data["code"].t = "str"
     /\ ~AsciiUNI(call.data["code"].v))
        => (~result.ok /\ "code" \in result.errors)

\* the date a Create holds for the date its input gives
C2_DateHeld ==
    IF call.data[Day] \in {Absent, None} THEN None
    ELSE IF call.data[Day].t = "str" THEN DateVal(Date1815)
    ELSE call.data[Day]

\* C2: a Create whose code matches ^[a-z]{2,3}[0-9]{1,4}$, with a string
\* staff/professor and with or without a date, succeeds and the object holds
\* the supplied values, the date being None when not supplied.
C2_MatchingCodeAccepted ==
    (/\ Constructed("Create")
     /\ call.data["code"].t = "str"
     /\ AsciiUNI(call.data["code"].v)
     /\ call.data[Owner].t = "str"
     /\ call.data[Day] \in {Absent, None, DateVal(Date1815), DateVal(LeapDay),
                            Str(Date1815Text)})
        => /\ result.ok
           /\ result.obj["code"] = call.data["code"]
           /\ result.obj[Owner] = call.data[Owner]
           /\ result.obj[Day] = C2_DateHeld

C2_Witness ==
    /\ Constructed("Create")
    /\ call.data["code"] = Str(<<97, 97, 97, 49, 49, 49, 49>>)
    /\ call.data[Day] = DateVal(Date1815)
    /\ result.ok
    /\ result.obj[Day] = DateVal(Date1815)

\* C3 as stated: a Create that omits code, omits staff/professor or gives
\* the empty string for staff/professor is rejected, and one that omits only
\* the date is accepted.
C3_EmptyOwnerRejected ==
    Constructed("Create") =>
        /\ (\/ call.data["code"] = Absent
            \/ call.data[Owner] = Absent
            \/ call.data[Owner] = Str(<<>>)) => ~result.ok
        /\ (/\ call.data["code"] = Str(<<97, 98, 49>>)
            /\ call.data[Owner] = Str(Ada)
            /\ call.data[Day] = Absent) => result.ok

\* C3 amended: a Create that omits code, omits staff/professor or gives a
\* non-string (null, a number) for staff/professor is rejected on that field;
\* any string, the empty one included, is accepted for staff/professor, and
\* omitting the date is accepted and leaves it None.
C3_RequiredFields ==
    Constructed("Create") =>
        /\ call.data["code"] = Absent => "code" \in result.errors
        /\ call.data[Owner].t # "str" => Owner \in result.errors
        /\ call.data[Owner].t = "str" => Owner \notin result.errors
        /\ call.data[Day] = Absent => Day \notin result.errors
        /\ (call.data[Day] = Absent /\ result.ok) => result.obj[Day] = None
        /\ result.ok <=> result.errors = {}

C3_Witness ==
    /\ Constructed("Create")
    /\ call.data[Owner] = Str(<<>>)
    /\ call.data[Day] = Absent
    /\ result.ok
    /\ result.obj[Owner] = Str(<<>>)

\* C4: the code of every Base, Create, Update or Read object, after
\* construction and after any later assignments, is None or a string
\* matching ^[a-z]{2,3}[0-9]{1,4}$.
C4_CodeAlwaysMatches ==
    (pc = "done" /\ result.ok /\ result.obj["code"] # None)
        => (result.obj["code"].t = "str" /\ AsciiUNI(result.obj["code"].v))

\* C5 as stated: id, created_at and updated_at of a Read object are always
\* the generated ones, never values of the constructor's input.
C5_ServerGeneratedOnly ==
    (Constructed("Read") /\ result.ok)
        => /\ result.obj["id"] \in ServerUUIDs
           /\ result.obj["created_at"] \in ServerClock
           /\ result.obj["updated_at"] \in ServerClock

\* held is the value given, or the value the given text denotes
C5_Supplied(given, held) ==
    IF given.t = "str"
    THEN (IF held.t = "uuid" THEN FormatUUID(held.v) ELSE FormatDatetime(held.v))
             = given.v
    ELSE held = given

\* C5 amended: id, created_at and updated_at of a Read object are never
\* null; each is the generated value when the constructor's input does not
\* supply it, and the supplied value (parsed, when it is text) when it does.
C5_ReadIdentity ==
    (Constructed("Read") /\ result.ok)
        => /\ \A f \in {"id", "created_at", "updated_at"} :
                /\ result.obj[f].t \in {"uuid", "datetime"}
                /\ call.data[f] # Absent => C5_Supplied(call.data[f], result.obj[f])
           /\ call.data["id"] = Absent => result.obj["id"] \in ServerUUIDs
           /\ call.data["created_at"] = Absent
                  => result.obj["created_at"] \in ServerClock
           /\ call.data["updated_at"] = Absent
                  => result.obj["updated_at"] \in ServerClock

C5_Witness ==
    /\ Constructed("Read")
    /\ result.ok
    /\ call.data["id"] = ClientUUID
    /\ result.obj["id"] = ClientUUID
    /\ call.data["created_at"] = Absent
    /\ result.obj["created_at"] \in ServerClock

\* C6: for every field and every value supplied for it, null included,
\* Update accepts the value if and only if Create accepts it.
C6_UpdateAcceptsWhatCreateAccepts ==
    Constructed("Update") =>
        \A f \in BaseNames :
            call.data[f] # Absent =>
                (f \in result.errors <=>
                 f \in ModelValidate(call.group, "Create", call.data,
                                     OneFactory).errors)

\* the fields of the call whose value violates the field's constraint
C7_Failing ==
    LET fields == ModelFields(call.group, call.variant)
    IN  {fields[i].name : i \in
            {j \in 1..Len(fields) :
                ~ValidateField(fields[j], call.data[fields[j].name], None).ok}}

\* C7: an input with a field that violates its constraint produces no
\* object, and the error names every failing field; an input with none
\* produces the object.
C7_AllOrNothing ==
    pc = "done" =>
        /\ result.errors = C7_Failing
        /\ C7_Failing # {} => (~result.ok /\ result.obj = NoObject)
        /\ C7_Failing = {} =>
               (result.ok /\ DOMAIN result.obj =
                    FieldNames(ModelFields(call.group, call.variant)))

C7_Witness ==
    /\ Constructed("Read")
    /\ ~result.ok
    /\ result.obj = NoObject
    /\ result.errors = {"code", Owner, Day, "id", "created_at"}

\* C8: a Read built from a persisted record that passed Create validation,
\* possibly after merging validated Updates, never fails; its id and
\* timestamps are non-null and its base fields are the record's.
C8_ReadNeverFails ==
    pc = "read" =>
        /\ result.ok
        /\ \A f \in {"id", "created_at", "updated_at"} :
               result.obj[f].t \in {"uuid", "datetime"}
        /\ \A f \in BaseNames : result.obj[f] = store.rec[f]

\* C9: an Update built from no fields is valid and each of its fields is
\* None.
C9_EmptyUpdate ==
    (/\ Constructed("Update")
     /\ \A f \in BaseNames : call.data[f] = Absent)
        => /\ result.ok
           /\ \A f \in BaseNames : result.obj[f] = None

C9_Witness ==
    /\ Constructed("Update")
    /\ \A f \in DOMAIN call.data : call.data[f] = Absent
    /\ result.ok
    /\ result.obj["code"] = None

\* C10: a Read object serialised to JSON and parsed back is accepted and
\* equals the original in every field, id and timestamps included.
C10_RoundTrip ==
    (pc = "parsed" /\ call.variant = "Read")
        => /\ back.ok
           /\ back.obj = result.obj

C10_Witness ==
    /\ pc = "parsed"
    /\ call.variant = "Read"
    /\ result.obj[Owner] = Str(Quoted)
    /\ result.obj["created_at"].v[7] # 0
    /\ result.obj["updated_at"] = ClientDatetime
    /\ result.obj[Day] = DateVal(LeapDay)
    /\ back.ok

====
